---- MODULE Spec2Model ----
(***************************************************************************)
(* Model of gpl/train.py: the train() orchestrator of the GPL pipeline.    *)
(*                                                                         *)
(* The state is the artifact directory (path_to_generated_data), the       *)
(* checkpoint directories under output_dir, the arguments of the current   *)
(* invocation and the position of that invocation in train().  One action  *)
(* models each block of train(); Kill models an interruption of the        *)
(* process, and the Invoke/Rerun actions model the caller starting         *)
(* train() again over the same directories.                                *)
(***************************************************************************)
EXTENDS Integers, Sequences, FiniteSets, TLC

\* ---------------------------------------------------------------- bounds
MaxRuns == 2            \* invocations of train() in one behaviour
MaxCkpts == 2           \* gpl_steps ranges up to MaxCkpts checkpoint intervals

\* ------------------------------------------------------ program constants
CheckpointSaveSteps == 10000    \* checkpoint_save_steps of model.fit

PoolingModes == {"mean", "cls", "max"}

\* file names train() looks for in os.listdir(path_to_generated_data)
CorpusFile  == "corpus.jsonl"
QrelsDir    == "qgen-qrels"
QueriesFile == "qgen-queries.jsonl"
HardNegFile == "hard-negatives.jsonl"
GplDataFile == "gpl-training-data.tsv"
Artifacts   == {CorpusFile, QrelsDir, QueriesFile, HardNegFile, GplDataFile}

\* the five gated stages, and the order train() visits them in
Stages == <<"ensure_corpus", "generate_queries", "mine_negatives",
            "pseudo_label", "train">>
StageSet == {Stages[i] : i \in 1..Len(Stages)}

\* ------------------------------------------------------------ input sets
\* "absent": no directory entry; "empty": entry of size zero; "partial":
\* entry whose writer did not finish; "full": completely written.
Status == {"absent", "empty", "partial", "full"}

PoolingInputs == {"cls", "sum"}
EvalDataInputs == {"None", "bad", "ok"}
    \* "None": evaluation_data is None; "bad": a path GenericDataLoader
    \* cannot load and that holds no corpus.jsonl; "ok": a BeIR dataset
NewSizeInputs == {"None", "smaller"}
GplStepsInputs == {CheckpointSaveSteps \div 2}
                    \cup {CheckpointSaveSteps * k : k \in 1..MaxCkpts}

Config == [pooling : PoolingInputs, do_evaluation : BOOLEAN,
           evaluation_data : EvalDataInputs, new_size : NewSizeInputs,
           gpl_steps : GplStepsInputs]

VARIABLES
    pc,           \* position of the current invocation in train()
    cfg,          \* arguments of the current invocation
    wd,           \* path_to_generated_data exists
    files,        \* status of each artifact of path_to_generated_data
    ckpt,         \* status of <output_dir>/<n> for each step count n
    ran,          \* stages whose gate took the run branch, this invocation
    skipped,      \* stages whose gate took the skip branch, this invocation
    trace,        \* collaborator calls of this invocation, in call order
    finished,     \* stages whose collaborator returned normally
    written,      \* artifacts created or modified by this invocation
    err,          \* the error that ended this invocation, or "none"
    failedCollab, \* the collaborator that failed in this invocation
    readPartial,  \* some stage has read a not fully written artifact
    mode,         \* how this invocation relates to the one before it
    runs,         \* invocations started so far
    madeWd,       \* this invocation's makedirs created path_to_generated_data
    resized,      \* corpus.jsonl of the working directory is resize's output
    rows,         \* the rows of gpl-training-data.tsv, in persisted order
    batches,      \* the batches iter(train_dataloader) has yet to yield
    delivered,    \* the examples handed to the fit loop so far, in order
    lpc           \* position in the construction and use of the data loader

\* the state of the data loader of lines 102-104, and the rest of the state
loaderVars == <<rows, batches, delivered, lpc>>
trainVars == <<pc, cfg, wd, files, ckpt, ran, skipped, trace, finished,
               written, err, failedCollab, readPartial, mode, runs, madeWd,
               resized>>

vars == <<pc, cfg, wd, files, ckpt, ran, skipped, trace, finished, written,
          err, failedCollab, readPartial, mode, runs, madeWd, resized,
          rows, batches, delivered, lpc>>

\* ---------------------------------------------------------------- helpers
Present(f) == files[f] # "absent"
    \* f in os.listdir(path_to_generated_data)

Returned == pc \in {"idle", "done", "failed", "killed"}

CkptDir == cfg.gpl_steps
    \* ckpt_dir = os.path.join(output_dir, str(gpl_steps))

Abort(e) ==
    /\ pc' = "failed"
    /\ err' = e

ReadsUnfinished(fs) == \E f \in fs : files[f] \in {"empty", "partial"}


\* ------------------------------------------------------------------ Init
\* the arguments held before the first call of train()
IdleConfig ==
    [pooling |-> "cls", do_evaluation |-> FALSE, evaluation_data |-> "ok",
     new_size |-> "None", gpl_steps |-> CheckpointSaveSteps]

Init ==
    /\ pc = "idle"
    /\ cfg = IdleConfig
    /\ wd \in BOOLEAN
    /\ files \in [Artifacts -> {"absent", "full"}]
    /\ (~wd => \A f \in Artifacts : files[f] = "absent")
    /\ ckpt = [n \in GplStepsInputs |-> "absent"]
    /\ ran = {}
    /\ skipped = {}
    /\ trace = <<>>
    /\ finished = {}
    /\ written = {}
    /\ err = "none"
    /\ failedCollab = "none"
    /\ readPartial = FALSE
    /\ mode = "fresh"
    /\ runs = 0
    /\ madeWd = FALSE
    /\ resized = FALSE
    /\ rows = <<>>
    /\ batches = <<>>
    /\ delivered = <<>>
    /\ lpc = "dataset"

\* ------------------------------------------------- the caller of train()
Enter ==
    /\ pc' = "assert"
    /\ ran' = {}
    /\ skipped' = {}
    /\ trace' = <<>>
    /\ finished' = {}
    /\ written' = {}
    /\ err' = "none"
    /\ failedCollab' = "none"
    /\ readPartial' = FALSE
    /\ runs' = runs + 1
    /\ madeWd' = FALSE
    /\ UNCHANGED <<resized, loaderVars>>

\* train(**vars(args)) with any arguments, over whatever the directories hold
Invoke(c) ==
    /\ Returned
    /\ runs < MaxRuns
    /\ cfg' = c
    /\ mode' = CASE pc = "killed" -> "after_kill"
                 [] pc = "failed" -> "after_error"
                 [] OTHER -> "fresh"
    /\ Enter
    /\ UNCHANGED <<wd, files, ckpt>>

\* the same call again after train() returned normally, nothing changed
Rerun ==
    /\ pc = "done"
    /\ runs < MaxRuns
    /\ mode' = "rerun"
    /\ Enter
    /\ UNCHANGED <<cfg, wd, files, ckpt>>

\* the same call again after the user deleted gpl-training-data.tsv only
RerunAfterDeletingGplData ==
    /\ pc = "done"
    /\ runs < MaxRuns
    /\ files' = [files EXCEPT ![GplDataFile] = "absent"]
    /\ mode' = "rerun_deleted_gpl_data"
    /\ Enter
    /\ UNCHANGED <<cfg, wd, ckpt>>

\* the same call again with only --gpl_steps changed
RerunWithNewSteps(n) ==
    /\ pc = "done"
    /\ runs < MaxRuns
    /\ n # cfg.gpl_steps
    /\ cfg' = [cfg EXCEPT !.gpl_steps = n]
    /\ mode' = "rerun_new_gpl_steps"
    /\ Enter
    /\ UNCHANGED <<wd, files, ckpt>>

\* ------------------------------------------------------ train(), by block
\* (variant: the makedirs of line 51 done ahead of the assertions)
Assertions_AfterMakedirs ==
    /\ pc = "assert"
    /\ wd' = TRUE
    /\ madeWd' = ~wd
    /\ IF cfg.pooling \notin PoolingModes
         THEN Abort("pooling")
         ELSE IF cfg.do_evaluation /\ cfg.evaluation_data = "None"
           THEN Abort("evaluation_data_none")
           ELSE IF cfg.do_evaluation /\ cfg.evaluation_data = "bad"
             THEN \E raises \in BOOLEAN :
                    IF raises
                      THEN Abort("evaluation_data_load")
                      ELSE pc' = "ensure_corpus" /\ err' = err
             ELSE pc' = "ensure_corpus" /\ err' = err
    /\ UNCHANGED <<cfg, files, ckpt, ran, skipped, trace, finished,
                   written, failedCollab, readPartial, mode, runs,
                   resized, loaderVars>>

\* lines 39-47: #### Assertions ####
\* Line 44 constructs GenericDataLoader(evaluation_data) and does not call
\* its load(): whether constructing the loader over data that cannot be
\* loaded raises is the library's matter, so both outcomes are kept.
Assertions ==
    /\ pc = "assert"
    /\ IF cfg.pooling \notin PoolingModes
         THEN Abort("pooling")
         ELSE IF cfg.do_evaluation /\ cfg.evaluation_data = "None"
           THEN Abort("evaluation_data_none")
           ELSE IF cfg.do_evaluation /\ cfg.evaluation_data = "bad"
             THEN \E raises \in BOOLEAN :
                    IF raises
                      THEN Abort("evaluation_data_load")
                      ELSE pc' = "ensure_corpus" /\ err' = err
             ELSE pc' = "ensure_corpus" /\ err' = err
    /\ UNCHANGED <<cfg, wd, files, ckpt, ran, skipped, trace, finished,
                   written, failedCollab, readPartial, mode, runs,
                   madeWd, resized, loaderVars>>

\* (variant: the gate also asks for a non-empty file)
CorpusInGeneratedData_NonEmpty == files[CorpusFile] \in {"partial", "full"}

\* line 52: 'corpus.jsonl' not in os.listdir(path_to_generated_data)
CorpusInGeneratedData == Present(CorpusFile)

\* line 54: 'corpus.jsonl' in os.listdir(evaluation_data).  With
\* evaluation_data None the listing is of the current directory and the
\* os.path.join(None, ...) that follows raises, so no copy is made either.
CorpusInEvaluationData == cfg.evaluation_data = "ok"

\* (variant: the assertion of line 54 placed after the copy, so that a
\* missing source corpus is found only once cp has been attempted)
EnsureCorpus_AssertAfterCopy ==
    /\ pc = "ensure_corpus"
    /\ wd' = TRUE
    /\ madeWd' = ~wd
    /\ IF CorpusInGeneratedData
         THEN /\ skipped' = skipped \cup {"ensure_corpus"}
              /\ pc' = "generate_queries"
              /\ UNCHANGED <<ran, trace, err>>
         ELSE /\ ran' = ran \cup {"ensure_corpus"}
              /\ skipped' = skipped
              /\ trace' = Append(trace, "ensure_corpus")
              /\ IF CorpusInEvaluationData
                   THEN pc' = "copy" /\ err' = err
                   ELSE Abort("no_corpus_in_evaluation_data")
    /\ UNCHANGED <<cfg, files, ckpt, finished, written, failedCollab,
                   readPartial, mode, runs, resized, loaderVars>>

\* lines 51-54: makedirs, the corpus gate and the assertion before the copy
EnsureCorpus ==
    /\ pc = "ensure_corpus"
    /\ wd' = TRUE
    /\ madeWd' = ~wd
    /\ IF CorpusInGeneratedData
         THEN /\ skipped' = skipped \cup {"ensure_corpus"}
              /\ pc' = "generate_queries"
              /\ UNCHANGED <<ran, trace, err>>
         ELSE /\ ran' = ran \cup {"ensure_corpus"}
              /\ skipped' = skipped
              /\ IF CorpusInEvaluationData
                   THEN /\ pc' = "copy"
                        /\ trace' = Append(trace, "ensure_corpus")
                        /\ err' = err
                   ELSE /\ Abort("no_corpus_in_evaluation_data")
                        /\ trace' = trace
    /\ UNCHANGED <<cfg, files, ckpt, finished, written, failedCollab,
                   readPartial, mode, runs, resized, loaderVars>>


\* What a stage of gpl.toolkit (resize, qgen, NegativeMiner.run,
\* PseudoLabeler.run) leaves as its artifact when it returns normally: the
\* artifact persisted in full.  A toolkit stage that raises or is
\* interrupted leaves no artifact behind.
ToolkitOutput == "full"

\* (variant: the test of line 55 turned round, so that a requested resize
\* takes the cp branch)
ResizeRequested_Negated == cfg.new_size = "None"

\* line 55: new_size is not None
ResizeRequested == cfg.new_size # "None"

\* lines 55-59: resize(...) or os.system('cp ...'), whose exit status is
\* not looked at: a failed cp leaves no corpus.jsonl or an unfinished one
\* and train() goes on to the next block.
CopyCorpus ==
    /\ pc = "copy"
    /\ \E ok \in BOOLEAN :
         IF ResizeRequested
           THEN IF ok
                  THEN /\ files' = [files EXCEPT ![CorpusFile] = ToolkitOutput]
                       /\ resized' = TRUE
                       /\ written' = written \cup {CorpusFile}
                       /\ finished' = finished \cup {"ensure_corpus"}
                       /\ pc' = "generate_queries"
                       /\ UNCHANGED <<err, failedCollab>>
                  ELSE /\ Abort("resize")
                       /\ failedCollab' = "resize"
                       /\ UNCHANGED <<files, resized, written, finished>>
           ELSE IF ok
                  THEN /\ files' = [files EXCEPT ![CorpusFile] = "full"]
                       /\ resized' = FALSE
                       /\ written' = written \cup {CorpusFile}
                       /\ finished' = finished \cup {"ensure_corpus"}
                       /\ pc' = "generate_queries"
                       /\ UNCHANGED <<err, failedCollab>>
                  ELSE /\ \E left \in {"absent", "partial"} :
                            /\ files' = [files EXCEPT ![CorpusFile] = left]
                            /\ written' = IF left = "absent" THEN written
                                          ELSE written \cup {CorpusFile}
                       /\ resized' = FALSE
                       /\ failedCollab' = "cp"
                       /\ pc' = "generate_queries"
                       /\ UNCHANGED <<err, finished>>
    /\ UNCHANGED <<cfg, wd, ckpt, ran, skipped, trace, readPartial, mode,
                   runs, madeWd, loaderVars>>

\* (variant: one of the two entries is enough to skip)
GeneratedDataExists_Either == Present(QrelsDir) \/ Present(QueriesFile)

\* line 63: both generated-data entries are in the listing
GeneratedDataExists == Present(QrelsDir) /\ Present(QueriesFile)

\* lines 63-64, 66-68: the query-generation gate and the corpus assertion
GenerateQueries ==
    /\ pc = "generate_queries"
    /\ IF GeneratedDataExists
         THEN /\ skipped' = skipped \cup {"generate_queries"}
              /\ pc' = "load"
              /\ UNCHANGED <<ran, trace, err, readPartial>>
         ELSE /\ ran' = ran \cup {"generate_queries"}
              /\ skipped' = skipped
              /\ IF Present(CorpusFile)
                   THEN /\ pc' = "qgen"
                        /\ trace' = Append(trace, "generate_queries")
                        /\ readPartial' =
                             (readPartial \/ ReadsUnfinished({CorpusFile}))
                        /\ err' = err
                   ELSE /\ Abort("no_corpus_in_generated_data")
                        /\ UNCHANGED <<trace, readPartial>>
    /\ UNCHANGED <<cfg, wd, files, ckpt, finished, written, failedCollab,
                   mode, runs, madeWd, resized, loaderVars>>

\* line 69: qgen(...) reads corpus.jsonl and writes the queries and qrels
Qgen ==
    /\ pc = "qgen"
    /\ \E ok \in BOOLEAN :
         IF ok
           THEN /\ files' = [files EXCEPT ![QueriesFile] = ToolkitOutput,
                                          ![QrelsDir] = ToolkitOutput]
                /\ written' = written \cup {QueriesFile, QrelsDir}
                /\ finished' = finished \cup {"generate_queries"}
                /\ pc' = "load"
                /\ UNCHANGED <<err, failedCollab>>
           ELSE /\ Abort("qgen")
                /\ failedCollab' = "qgen"
                /\ UNCHANGED <<files, written, finished>>
    /\ UNCHANGED <<cfg, wd, ckpt, ran, skipped, trace, readPartial, mode, runs,
                   madeWd, resized, loaderVars>>

\* lines 65, 70: GenericDataLoader(path, prefix).load(split="train") reads
\* corpus.jsonl, the queries and the qrels and raises when one is missing
Load ==
    /\ pc = "load"
    /\ IF \A f \in {CorpusFile, QueriesFile, QrelsDir} : Present(f)
         THEN /\ pc' = "mine_negatives"
              /\ readPartial' = (readPartial \/
                    ReadsUnfinished({CorpusFile, QueriesFile, QrelsDir}))
              /\ UNCHANGED <<err, failedCollab>>
         ELSE /\ Abort("load")
              /\ failedCollab' = "load"
              /\ readPartial' = readPartial
    /\ UNCHANGED <<cfg, wd, files, ckpt, ran, skipped, trace, finished,
                   written, mode, runs, madeWd, resized, loaderVars>>

\* (variant: the mining gate looks for the pseudo-labeling artifact)
HardNegativesExist_WrongFile == Present(GplDataFile)

\* line 74: 'hard-negatives.jsonl' in os.listdir(path_to_generated_data)
HardNegativesExist == Present(HardNegFile)

\* lines 74-78: the mining gate and NegativeMiner(..., retrievers=retrievers);
\* an identifier that cannot be loaded aborts before anything is written
MineNegatives ==
    /\ pc = "mine_negatives"
    /\ IF HardNegativesExist
         THEN /\ skipped' = skipped \cup {"mine_negatives"}
              /\ pc' = "pseudo_label"
              /\ UNCHANGED <<ran, trace, err, failedCollab, readPartial>>
         ELSE /\ ran' = ran \cup {"mine_negatives"}
              /\ skipped' = skipped
              /\ \E retrievers_ok \in BOOLEAN :
                   IF retrievers_ok
                     THEN /\ pc' = "mine"
                          /\ trace' = Append(trace, "mine_negatives")
                          /\ readPartial' = (readPartial \/
                               ReadsUnfinished({CorpusFile, QueriesFile,
                                                QrelsDir}))
                          /\ UNCHANGED <<err, failedCollab>>
                     ELSE /\ Abort("retriever")
                          /\ failedCollab' = "retriever"
                          /\ UNCHANGED <<trace, readPartial>>
    /\ UNCHANGED <<cfg, wd, files, ckpt, finished, written, mode, runs,
                   madeWd, resized, loaderVars>>

\* line 79: miner.run() writes hard-negatives.jsonl
Mine ==
    /\ pc = "mine"
    /\ \E ok \in BOOLEAN :
         IF ok
           THEN /\ files' = [files EXCEPT ![HardNegFile] = ToolkitOutput]
                /\ written' = written \cup {HardNegFile}
                /\ finished' = finished \cup {"mine_negatives"}
                /\ pc' = "pseudo_label"
                /\ UNCHANGED <<err, failedCollab>>
           ELSE /\ Abort("mine")
                /\ failedCollab' = "mine"
                /\ UNCHANGED <<files, written, finished>>
    /\ UNCHANGED <<cfg, wd, ckpt, ran, skipped, trace, readPartial, mode, runs,
                   madeWd, resized, loaderVars>>

\* (variant: the condition negated)
GplDataExists_Negated == ~Present(GplDataFile)

\* line 83: 'gpl-training-data.tsv' in os.listdir(path_to_generated_data)
GplDataExists == Present(GplDataFile)

\* (variant: the label file is taken as stale, and written again, when the
\* mining stage ran in the same invocation)
PseudoLabel_UnlessMined ==
    /\ pc = "pseudo_label"
    /\ IF GplDataExists /\ "mine_negatives" \notin ran
         THEN /\ skipped' = skipped \cup {"pseudo_label"}
              /\ pc' = "train"
              /\ UNCHANGED <<ran, trace, readPartial>>
         ELSE /\ ran' = ran \cup {"pseudo_label"}
              /\ skipped' = skipped
              /\ pc' = "label"
              /\ trace' = Append(trace, "pseudo_label")
              /\ readPartial' = (readPartial \/ ReadsUnfinished({HardNegFile}))
    /\ UNCHANGED <<cfg, wd, files, ckpt, finished, written, err,
                   failedCollab, mode, runs, madeWd, resized, loaderVars>>

\* lines 83-87: the pseudo-labeling gate and PseudoLabeler(...)
PseudoLabel ==
    /\ pc = "pseudo_label"
    /\ IF GplDataExists
         THEN /\ skipped' = skipped \cup {"pseudo_label"}
              /\ pc' = "train"
              /\ UNCHANGED <<ran, trace, readPartial>>
         ELSE /\ ran' = ran \cup {"pseudo_label"}
              /\ skipped' = skipped
              /\ pc' = "label"
              /\ trace' = Append(trace, "pseudo_label")
              /\ readPartial' = (readPartial \/ ReadsUnfinished({HardNegFile}))
    /\ UNCHANGED <<cfg, wd, files, ckpt, finished, written, err,
                   failedCollab, mode, runs, madeWd, resized, loaderVars>>

\* line 88: pseudo_labeler.run() writes gpl-training-data.tsv
Label ==
    /\ pc = "label"
    /\ \E ok \in BOOLEAN :
         IF ok
           THEN /\ files' = [files EXCEPT ![GplDataFile] = ToolkitOutput]
                /\ written' = written \cup {GplDataFile}
                /\ finished' = finished \cup {"pseudo_label"}
                /\ pc' = "train"
                /\ UNCHANGED <<err, failedCollab>>
           ELSE /\ Abort("label")
                /\ failedCollab' = "label"
                /\ UNCHANGED <<files, written, finished>>
    /\ UNCHANGED <<cfg, wd, ckpt, ran, skipped, trace, readPartial, mode, runs,
                   madeWd, resized, loaderVars>>


\* (variant: the gate looks at output_dir instead of output_dir/gpl_steps)
NeedsTraining_OutputDir ==
    \A n \in DOMAIN ckpt : ckpt[n] = "absent"

\* line 94: not os.path.exists(ckpt_dir) or
\*          (os.path.exists(ckpt_dir) and not os.listdir(ckpt_dir))
NeedsTraining == ckpt[CkptDir] = "absent" \/ ckpt[CkptDir] = "empty"

\* lines 93-105: the training gate, the model and the data loader, which
\* opens gpl-training-data.tsv
Train ==
    /\ pc = "train"
    /\ IF NeedsTraining
         THEN /\ ran' = ran \cup {"train"}
              /\ skipped' = skipped
              /\ pc' = "fit"
              /\ trace' = Append(trace, "train")
              /\ readPartial' = (readPartial \/ ReadsUnfinished({GplDataFile}))
         ELSE /\ skipped' = skipped \cup {"train"}
              /\ pc' = "evaluate"
              /\ UNCHANGED <<ran, trace, readPartial>>
    /\ UNCHANGED <<cfg, wd, files, ckpt, finished, written, err,
                   failedCollab, mode, runs, madeWd, resized, loaderVars>>

\* lines 108-118: model.fit(epochs=1, steps_per_epoch=gpl_steps,
\* checkpoint_save_steps=10000, checkpoint_path=output_dir) saves
\* <output_dir>/<step> at every step that is a multiple of 10000
SavedCheckpoints(steps) ==
    {CheckpointSaveSteps * k : k \in 1..(steps \div CheckpointSaveSteps)}

\* The checkpoint directories after fit returns.  Whether fit also saves
\* <output_dir>/<gpl_steps> when gpl_steps is no multiple of
\* checkpoint_save_steps is left to the installed library (last = TRUE:
\* it does), so both outcomes are kept.
AfterFit(steps, last) ==
    [n \in DOMAIN ckpt |->
        IF n \in SavedCheckpoints(steps) \/ (last /\ n = steps)
          THEN "full" ELSE ckpt[n]]

\* the checkpoint directories a fit that stops early leaves: the first j
\* saved, the next one untouched, created empty or half written
StoppedFit(steps, j, next) ==
    [n \in DOMAIN ckpt |->
        IF n \in SavedCheckpoints(j * CheckpointSaveSteps) THEN "full"
        ELSE IF /\ n = (j + 1) * CheckpointSaveSteps
                /\ n \in SavedCheckpoints(steps)
                /\ next # "untouched"
          THEN next
          ELSE ckpt[n]]

StoppedFits(steps) ==
    {StoppedFit(steps, j, next) :
        j \in 0..(steps \div CheckpointSaveSteps),
        next \in {"untouched", "empty", "partial"}}

Fit ==
    /\ pc = "fit"
    /\ \E ok \in BOOLEAN :
         IF ok
           THEN /\ \E last \in BOOLEAN : ckpt' = AfterFit(cfg.gpl_steps, last)
                /\ finished' = finished \cup {"train"}
                /\ pc' = "evaluate"
                /\ UNCHANGED <<err, failedCollab>>
           ELSE /\ ckpt' \in StoppedFits(cfg.gpl_steps)
                /\ Abort("fit")
                /\ failedCollab' = "fit"
                /\ finished' = finished
    /\ written' = IF ckpt' # ckpt THEN written \cup {"checkpoints"} ELSE written
    /\ UNCHANGED <<cfg, wd, files, ran, skipped, trace, readPartial, mode, runs,
                   madeWd, resized, loaderVars>>

\* (variant: evaluate called whether or not it was asked for)
EvaluationRequested_Always == TRUE

\* line 123: if do_evaluation:
EvaluationRequested == cfg.do_evaluation

\* lines 122-132: evaluate(evaluation_data, evaluation_output, ckpt_dir, ...)
\* evaluate over data that cannot be loaded does not return normally.
Evaluate ==
    /\ pc = "evaluate"
    /\ IF EvaluationRequested
         THEN /\ trace' = Append(trace, "evaluate")
              /\ readPartial' =
                   (readPartial \/ ckpt[CkptDir] \in {"empty", "partial"})
              /\ \E ok \in {b \in BOOLEAN : b => cfg.evaluation_data = "ok"} :
                   IF ok
                     THEN /\ pc' = "done"
                          /\ UNCHANGED <<err, failedCollab>>
                     ELSE /\ Abort("evaluate")
                          /\ failedCollab' = "evaluate"
         ELSE /\ pc' = "done"
              /\ UNCHANGED <<trace, readPartial, err, failedCollab>>
    /\ UNCHANGED <<cfg, wd, files, ckpt, ran, skipped, finished, written,
                   mode, runs, madeWd, resized, loaderVars>>

\* ------------------------------------------------------------ interruption
\* The process is killed.  A cp in progress leaves no corpus.jsonl, an empty
\* one or an unfinished one; a fit in progress leaves some of its
\* checkpoints; a toolkit stage in progress has persisted each of its
\* outputs in full or not at all.
KilledOutputs ==
    CASE pc = "qgen" -> {QueriesFile, QrelsDir}
      [] pc = "mine" -> {HardNegFile}
      [] pc = "label" -> {GplDataFile}
      [] pc = "copy" /\ ResizeRequested -> {CorpusFile}
      [] OTHER -> {}

Kill ==
    /\ ~Returned
    /\ pc' = "killed"
    /\ IF pc = "copy" /\ ~ResizeRequested
         THEN \E left \in {"absent", "empty", "partial"} :
                files' = [files EXCEPT ![CorpusFile] = left]
         ELSE \E done \in SUBSET KilledOutputs :
                files' = [f \in Artifacts |->
                            IF f \in done THEN ToolkitOutput ELSE files[f]]
    /\ IF pc = "fit"
         THEN ckpt' \in StoppedFits(cfg.gpl_steps)
         ELSE ckpt' = ckpt
    /\ written' = written \cup {f \in Artifacts : files'[f] # files[f]}
                     \cup (IF ckpt' # ckpt THEN {"checkpoints"} ELSE {})
    /\ resized' = (resized \/ (pc = "copy" /\ ResizeRequested
                                   /\ files'[CorpusFile] # files[CorpusFile]))
    /\ UNCHANGED <<cfg, wd, ran, skipped, trace, finished, err, failedCollab,
                   readPartial, mode, runs, madeWd, loaderVars>>

\* ------------------------------------------------------------------- Next
Next ==
    \/ \E c \in Config : Invoke(c)
    \/ Rerun
    \/ RerunAfterDeletingGplData
    \/ \E n \in GplStepsInputs : RerunWithNewSteps(n)
    \/ Assertions
    \/ EnsureCorpus
    \/ CopyCorpus
    \/ GenerateQueries
    \/ Qgen
    \/ Load
    \/ MineNegatives
    \/ Mine
    \/ PseudoLabel
    \/ Label
    \/ Train
    \/ Fit
    \/ Evaluate
    \/ Kill

Spec == Init /\ [][Next]_vars


\* ========================================================= the data loader
\* Lines 102-104 on their own: the rows of gpl-training-data.tsv, the
\* dataset built over them, the DataLoader built over the dataset and the
\* batches the fit loop draws from it in one pass.
MaxRows == 4            \* rows of gpl-training-data.tsv
MaxBatch == 2           \* batch_size_gpl

RowIds == 1..MaxRows
    \* a row (query id, positive id, negative id, margin), by its identity

\* the files the labeler may have persisted: distinct rows in any order
RowFiles ==
    {f \in UNION {[1..n -> RowIds] : n \in 0..MaxRows} :
        \A i, j \in DOMAIN f : i # j => f[i] # f[j]}

\* The training example assembled from one row: the row's ids resolved
\* into texts, with the row's margin as label.
Example(r) == [texts |-> r, label |-> r]

\* GenerativePseudoLabelingDataset(fpath_gpl_data, gen_queries, corpus):
\* one example per row of the file, in the order of the file
Dataset(rs) == [i \in 1..Len(rs) |-> Example(rs[i])]

\* (variant: the loader asked to shuffle)
Shuffle_True == TRUE

\* line 104: shuffle=False
Shuffle == FALSE

\* line 104: drop_last=True
DropLast == TRUE

\* the index orders the loader's sampler may draw for n examples
SamplerOrders(n) ==
    IF Shuffle
      THEN {f \in [1..n -> 1..n] : \A i, j \in 1..n : i # j => f[i] # f[j]}
      ELSE {[i \in 1..n |-> i]}

\* the number of batches of size bs over n examples
NumBatches(n, bs) ==
    IF DropLast THEN n \div bs ELSE (n + bs - 1) \div bs

\* the k-th batch: the examples at positions (k-1)*bs+1 .. k*bs of the order
Batch(examples, order, bs, k) ==
    LET first == (k - 1) * bs + 1
        last == IF k * bs < Len(examples) THEN k * bs ELSE Len(examples)
    IN  [i \in 1..(last - first + 1) |-> examples[order[first + i - 1]]]

\* DataLoader(train_dataset, shuffle, batch_size, drop_last), iterated once
Batches(examples, order, bs) ==
    [k \in 1..NumBatches(Len(examples), bs) |-> Batch(examples, order, bs, k)]

\* train() at the training block, the label file persisted
LoaderInit ==
    /\ pc = "train"
    /\ cfg = IdleConfig
    /\ wd = TRUE
    /\ files = [f \in Artifacts |-> "full"]
    /\ ckpt = [n \in GplStepsInputs |-> "absent"]
    /\ ran = {}
    /\ skipped = {"ensure_corpus", "generate_queries", "mine_negatives",
                  "pseudo_label"}
    /\ trace = <<>>
    /\ finished = {}
    /\ written = {}
    /\ err = "none"
    /\ failedCollab = "none"
    /\ readPartial = FALSE
    /\ mode = "fresh"
    /\ runs = 1
    /\ madeWd = FALSE
    /\ resized = FALSE
    /\ rows \in RowFiles
    /\ batches = <<>>
    /\ delivered = <<>>
    /\ lpc = "dataset"

\* lines 102-104: the dataset over the file and the loader over the dataset
MakeDataLoader ==
    /\ lpc = "dataset"
    /\ \E bs \in 1..MaxBatch : \E order \in SamplerOrders(Len(rows)) :
         batches' = Batches(Dataset(rows), order, bs)
    /\ lpc' = "iterate"
    /\ UNCHANGED <<rows, delivered, trainVars>>

\* lines 108-109: the fit loop draws the next batch of the loader
NextBatch ==
    /\ lpc = "iterate"
    /\ batches # <<>>
    /\ delivered' = delivered \o Head(batches)
    /\ batches' = Tail(batches)
    /\ UNCHANGED <<rows, lpc, trainVars>>

\* the loader has no batch left
Exhausted ==
    /\ lpc = "iterate"
    /\ batches = <<>>
    /\ lpc' = "exhausted"
    /\ UNCHANGED <<rows, batches, delivered, trainVars>>

LoaderNext ==
    \/ MakeDataLoader
    \/ NextBatch
    \/ Exhausted

LoaderSpec == LoaderInit /\ [][LoaderNext]_vars


\* ================================================================ claims
Range(q) == {q[i] : i \in 1..Len(q)}

\* the entries a stage's gate looks at
Outputs(s) ==
    CASE s = "ensure_corpus" -> {CorpusFile}
      [] s = "generate_queries" -> {QrelsDir, QueriesFile}
      [] s = "mine_negatives" -> {HardNegFile}
      [] s = "pseudo_label" -> {GplDataFile}
      [] s = "train" -> {"checkpoints"}

NonEmpty(st) == st \in {"partial", "full"}

\* the stage's gate artifact exists / exists and is non-empty / is complete
GatePresent(s) ==
    IF s = "train" THEN ckpt[CkptDir] # "absent"
    ELSE \A f \in Outputs(s) : files[f] # "absent"

GateNonEmpty(s) ==
    IF s = "train" THEN NonEmpty(ckpt[CkptDir])
    ELSE \A f \in Outputs(s) : NonEmpty(files[f])

GateComplete(s) ==
    IF s = "train" THEN ckpt[CkptDir] = "full"
    ELSE \A f \in Outputs(s) : files[f] = "full"

\* the stage took its run branch and has not yet changed its artifact, so
\* the artifact is as the gate saw it
RunningUnwritten(s) == s \in ran /\ Outputs(s) \cap written = {}

UpstreamStages ==
    {"ensure_corpus", "generate_queries", "mine_negatives", "pseudo_label"}


\* the stages whose gate lies before position p of train()
GatesBefore(p) ==
    CASE p \in {"copy", "generate_queries"} -> {"ensure_corpus"}
      [] p \in {"qgen", "load", "mine_negatives"} ->
            {"ensure_corpus", "generate_queries"}
      [] p \in {"mine", "pseudo_label"} ->
            {"ensure_corpus", "generate_queries", "mine_negatives"}
      [] p \in {"label", "train"} -> UpstreamStages
      [] p \in {"fit", "evaluate", "done"} -> StageSet
      [] OTHER -> {}

\* ---------------------------------------------------------------------
\* C1 (as stated): every stage is skipped, without side effect, exactly
\* when its output artifact exists and is non-empty; a stage whose artifact
\* is missing or present but empty runs.
C1_SkippedIffNonEmpty ==
    \A s \in StageSet :
        /\ s \in skipped => GateNonEmpty(s) /\ Outputs(s) \cap written = {}
        /\ RunningUnwritten(s) => ~GateNonEmpty(s)

\* C1 (amended): the four file-gated stages are skipped, without side
\* effect, exactly when the entries their gate names are present in the
\* listing, empty or not; only the train stage is skipped exactly when its
\* checkpoint directory exists and is non-empty.  Every gate reached takes
\* one of the two branches.
C1_SkippedIffPresent ==
    /\ GatesBefore(pc) \subseteq ran \cup skipped
    /\ ran \cap skipped = {}
    /\ \A s \in StageSet :
        /\ s \in skipped =>
              /\ Outputs(s) \cap written = {}
              /\ IF s = "train" THEN GateNonEmpty(s) ELSE GatePresent(s)
        /\ RunningUnwritten(s) =>
              IF s = "train" THEN ~GateNonEmpty(s) ELSE ~GatePresent(s)

\* an invocation returned having skipped ensure_corpus over an empty
\* corpus.jsonl and having run the train stage
C1_Witness ==
    /\ pc = "done"
    /\ "ensure_corpus" \in skipped
    /\ files[CorpusFile] = "empty"
    /\ "train" \in finished


C4_ResumeSkipsOnlyCompleted ==
    mode = "after_kill" => \A s \in skipped : GateComplete(s)

\* ---------------------------------------------------------------------
\* C5 (as stated): in one run, or in runs separated by interruptions, no
\* stage reads an artifact that was only partially written.
C5_NoPartialRead == ~readPartial


\* ---------------------------------------------------------------------
\* C6 (as stated): an unsupported pooling mode, a missing corpus file and
\* an unloadable retrieval-signal identifier are each raised before any
\* stage has executed or written anything.
C6_ConfigErrorsBeforeAnyStage ==
    err \in {"pooling", "no_corpus_in_evaluation_data", "retriever"} =>
        trace = <<>> /\ written = {}

\* C6 (amended): an unsupported pooling mode is raised before any gate is
\* looked at; a corpus missing from the evaluation path is raised before
\* the copy or any later stage executes; an unloadable retrieval-signal
\* identifier is raised when the mine stage is entered, after the corpus
\* and query-generation stages have been run or skipped, and before
\* mining starts or hard-negatives.jsonl is written.
C6_ConfigErrorsWhereRaised ==
    /\ err = "pooling" =>
          trace = <<>> /\ written = {} /\ ran = {} /\ skipped = {}
    /\ err = "no_corpus_in_evaluation_data" =>
          trace = <<>> /\ written = {} /\ ran = {"ensure_corpus"}
    /\ err = "retriever" =>
          /\ Range(trace) \subseteq {"ensure_corpus", "generate_queries"}
          /\ written \subseteq {CorpusFile, QueriesFile, QrelsDir}
          /\ {"ensure_corpus", "generate_queries"} \subseteq ran \cup skipped
          /\ "mine_negatives" \in ran

\* the retriever error raised after the copy and the query generation ran
C6_Witness ==
    /\ err = "retriever"
    /\ trace = <<"ensure_corpus", "generate_queries">>
    /\ {CorpusFile, QueriesFile, QrelsDir} \subseteq written

\* ---------------------------------------------------------------------
\* C7: after a completed run, with only gpl-training-data.tsv deleted, the
\* next run executes pseudo-labeling again, executes none of corpus
\* preparation, query generation and mining, and leaves
\* hard-negatives.jsonl untouched.
C7_DeletedGplDataRelabelsOnly ==
    mode = "rerun_deleted_gpl_data" =>
        /\ ran \cap {"ensure_corpus", "generate_queries", "mine_negatives"} = {}
        /\ written \subseteq {GplDataFile, "checkpoints"}
        /\ files[HardNegFile] = "full"
        /\ "pseudo_label" \notin skipped
        /\ pc \in {"label", "train", "fit", "evaluate", "done"} =>
              "pseudo_label" \in Range(trace)

\* such a run returned with the labels written again
C7_Witness ==
    /\ mode = "rerun_deleted_gpl_data"
    /\ pc = "done"
    /\ "pseudo_label" \in finished
    /\ {"ensure_corpus", "generate_queries", "mine_negatives"} \subseteq skipped

\* ---------------------------------------------------------------------
\* C8 (as stated): after a completed run, a run with only gpl_steps
\* changed executes the train stage and neither executes nor modifies the
\* four upstream stages' artifacts.
C8_NewStepsAlwaysRetrains ==
    mode = "rerun_new_gpl_steps" =>
        /\ ran \cap UpstreamStages = {}
        /\ written \cap Artifacts = {}
        /\ pc \in {"fit", "evaluate", "done"} => "train" \in ran

\* C8 (amended): such a run neither executes nor modifies the four
\* upstream stages' artifacts, and it executes the train stage exactly
\* when <output_dir>/<new gpl_steps> is missing or empty; a checkpoint
\* directory of that name left by an earlier, longer training skips it.
C8_NewStepsGateOnNewCheckpoint ==
    mode = "rerun_new_gpl_steps" =>
        /\ ran \cap UpstreamStages = {}
        /\ written \cap Artifacts = {}
        /\ pc \in {"fit", "evaluate", "done"} => "train" \in ran \cup skipped
        /\ "train" \in skipped => NonEmpty(ckpt[CkptDir])
        /\ RunningUnwritten("train") => ~NonEmpty(ckpt[CkptDir])

\* such a run returned without training, the new step count naming a
\* checkpoint that the earlier run had saved
C8_Witness ==
    /\ mode = "rerun_new_gpl_steps"
    /\ pc = "done"
    /\ "train" \in skipped
    /\ ckpt[CkptDir] = "full"

\* ---------------------------------------------------------------------
\* C9: the stages are called in the order ensure_corpus, generate_queries,
\* mine_negatives, pseudo_label, train, with evaluate last; mining starts
\* only with the generated queries and qrels present, pseudo-labeling only
\* with hard-negatives.jsonl present, training only with
\* gpl-training-data.tsv present.
CallPosition(c) ==
    CASE c = "ensure_corpus" -> 1
      [] c = "generate_queries" -> 2
      [] c = "mine_negatives" -> 3
      [] c = "pseudo_label" -> 4
      [] c = "train" -> 5
      [] c = "evaluate" -> 6

C9_StagesInOrder ==
    /\ \A i, j \in 1..Len(trace) :
          i < j => CallPosition(trace[i]) < CallPosition(trace[j])
    /\ pc = "mine" => GatePresent("generate_queries")
    /\ pc = "label" => GatePresent("mine_negatives")
    /\ pc = "fit" => GatePresent("pseudo_label")

\* a run that called every stage and then evaluate
C9_Witness ==
    /\ pc = "done"
    /\ trace = <<"ensure_corpus", "generate_queries", "mine_negatives",
                 "pseudo_label", "train", "evaluate">>

\* ---------------------------------------------------------------------
\* C10 (as stated): when the corpus copy or resize, the query generator, a
\* retrieval signal, the teacher scorer or the fine-tuning loop fails, the
\* run aborts there with the error and no later stage runs.
C10_CollaboratorFailureAborts ==
    failedCollab # "none" => pc = "failed" /\ err # "none"

\* ---------------------------------------------------------------------
\* C11 (as stated): with do_evaluation true and an evaluation dataset that
\* is None or cannot be loaded, the invocation ends in the assertions:
\* no gate is resolved, no stage is called, nothing is written and the
\* working directory is not created; with do_evaluation false no
\* evaluation-data error is raised.
EvaluationDataErrors == {"evaluation_data_none", "evaluation_data_load"}

C11_EvaluationDataCheckedFirst ==
    /\ ~cfg.do_evaluation => err \notin EvaluationDataErrors
    /\ cfg.do_evaluation /\ cfg.evaluation_data # "ok" =>
          /\ ran = {} /\ skipped = {} /\ trace = <<>> /\ written = {}
          /\ ~madeWd

\* ---------------------------------------------------------------------
\* C12 (as stated): whenever new_size asks for fewer passages than the
\* original corpus holds, the corpus the run works on, once the corpus
\* block is behind it, is resize's output (a strict subset of the original
\* with exactly the requested count), whatever the working directory held
\* when the run started.
C12_ResizedForEveryStart ==
    cfg.new_size = "smaller" /\ "ensure_corpus" \in finished \cup skipped =>
        resized /\ files[CorpusFile] = "full"

\* C12 (amended): the resize is applied only by a run whose corpus gate
\* finds no corpus.jsonl in the working directory: when that run's corpus
\* block returns, corpus.jsonl is resize's output.  A run that finds a
\* corpus.jsonl skips the block: new_size is ignored and the file is left
\* as it was, resized or not.
C12_ResizedWhenCorpusMissing ==
    cfg.new_size = "smaller" =>
        /\ "ensure_corpus" \in finished =>
              resized /\ files[CorpusFile] = "full"
        /\ "ensure_corpus" \in skipped => CorpusFile \notin written

\* a run with new_size set that resized the corpus and went on to the end
C12_Witness ==
    /\ cfg.new_size = "smaller"
    /\ "ensure_corpus" \in finished
    /\ resized
    /\ pc = "done"

\* ---------------------------------------------------------------------
\* C13: query generation is skipped exactly when both qgen-qrels and
\* qgen-queries.jsonl are listed in the working directory; when one is
\* missing the generator is called, and it is called only with
\* corpus.jsonl listed there, the run aborting otherwise.  Whichever
\* branch was taken, the only step into the later stages is the load of
\* the corpus, the queries and the qrels from the working directory.
AfterLoad == {"mine_negatives", "mine", "pseudo_label", "label", "train",
              "fit", "evaluate", "done"}

RowIndex(e) == CHOOSE k \in 1..Len(rows) : Example(rows[k]) = e

C14_DeliveredInFileOrder ==
    \A i, j \in 1..Len(delivered) :
        i < j => RowIndex(delivered[i]) < RowIndex(delivered[j])

\* a file whose rows are not in the order of their ids, delivered up to
\* the last full batch
C14_Witness ==
    /\ lpc = "exhausted"
    /\ Len(delivered) >= 3
    /\ rows[1] > rows[2]

C16_GatesLookAtOwnArtifact ==
    /\ [][/\ pc = "mine_negatives" /\ pc' # "killed" =>
                ("mine_negatives" \in skipped' <=> Present(HardNegFile))
          /\ pc = "pseudo_label" /\ pc' # "killed" =>
                /\ "pseudo_label" \in skipped' <=> Present(GplDataFile)
                /\ "pseudo_label" \in ran' <=> ~Present(GplDataFile)
          /\ pc = "train" /\ pc' # "killed" =>
                /\ "train" \in skipped' <=> NonEmpty(ckpt[CkptDir])
                /\ "train" \in ran' <=> ~NonEmpty(ckpt[CkptDir])]_vars
    /\ []("pseudo_label" \in skipped => GplDataFile \notin written)
    /\ []("train" \in skipped => "checkpoints" \notin written)

\* mining ran and wrote hard-negatives.jsonl, labeling was skipped over the
\* label file that was there, and the run went on to the training gate
C16_Witness ==
    /\ "mine_negatives" \in finished
    /\ HardNegFile \in written
    /\ "pseudo_label" \in skipped
    /\ pc = "train"

\* ---------------------------------------------------------------------
\* C17: in one invocation no stage is called twice and evaluate is called
\* at most once; evaluate is called only with do_evaluation true, after
\* the training gate was resolved and no error was raised before it;
\* an invocation that returns normally has called evaluate exactly when
\* do_evaluation is true, also when all five stages were skipped.
Calls(c) == Cardinality({i \in 1..Len(trace) : trace[i] = c})

C17_EachStageOnceEvaluateLast ==
    /\ \A c \in StageSet \cup {"evaluate"} : Calls(c) <= 1
    /\ "evaluate" \in Range(trace) =>
          /\ cfg.do_evaluation
          /\ "train" \in skipped \cup finished
          /\ err \in {"none", "evaluate"}
    /\ pc = "done" => (Calls("evaluate") = 1 <=> cfg.do_evaluation)

\* every stage skipped, evaluate called, the invocation returned
C17_Witness ==
    /\ pc = "done"
    /\ skipped = StageSet
    /\ trace = <<"evaluate">>

\* ---------------------------------------------------------------------
\* C18: with a pooling that is not 'mean', 'cls' or 'max' the invocation
\* ends in the assertions with that error, and up to there it has changed
\* nothing on disk: the working directory is not created, no artifact and
\* no checkpoint is created or modified, no gate is resolved.
C18_PoolingCheckedFirst ==
    /\ [](cfg.pooling \notin {"mean", "cls", "max"} =>
            /\ pc \in {"assert", "failed", "killed"}
            /\ pc = "failed" => err = "pooling"
            /\ ran = {} /\ skipped = {} /\ trace = <<>>
            /\ written = {} /\ ~madeWd)
    /\ [](err = "pooling" => cfg.pooling \notin {"mean", "cls", "max"})
    /\ [][cfg.pooling \notin {"mean", "cls", "max"} /\ pc = "assert" =>
             UNCHANGED <<wd, files, ckpt>>]_vars

\* the invocation failed on the pooling and the working directory, absent
\* before, is still absent
C18_Witness ==
    /\ pc = "failed"
    /\ err = "pooling"
    /\ ~wd

====
